---- MODULE Spec2Model ----
(***************************************************************************)
(* The native backend of Telepathy (src-tauri/src/lib.rs): four commands   *)
(* called by the UI layer, the global hotkey handler and the               *)
(* single-instance callback.                                               *)
(*                                                                         *)
(* A Rust String, and the bytes a child process writes, are sequences of   *)
(* one-character strings; a literal fragment of a format! template is one  *)
(* element of the sequence, so String::is_empty is "= <<>>".  Option<T> is *)
(* a sequence of length 0 (None) or 1 (Some).  Result<T, E> is a record    *)
(* tagged "Ok" or "Err".  Every call the code makes into the operating     *)
(* system or a library takes its outcome as an input; `trace` lists the    *)
(* calls the running handler has made, in order.                           *)
(***************************************************************************)
EXTENDS Integers, Sequences, FiniteSets, TLC

VARIABLES
    platform,              \* the cfg(target_os) the binary was built for
    windows,               \* labels of the webview windows that exist
    ignore_cursor_events,  \* the main window's click-through flag
    clipboard,             \* text on the system clipboard
    delivered,             \* ShortcutState callbacks the OS has delivered
    emitted,               \* app.emit calls made by the hotkey handler
    pc,                    \* "idle", or the position inside a handler
    cmd,                   \* the handler that ran last (or is running)
    arg,                   \* its argument
    result,                \* what it returned
    trace,                 \* the external calls it made, in order
    idx,                   \* open_system_settings: position in `urls`
    last_error             \* open_system_settings: `last_error`

vars == <<platform, windows, ignore_cursor_events, clipboard, delivered,
          emitted, pc, cmd, arg, result, trace, idx, last_error>>

----------------------------------------------------------------------------
(* Bounds of the model. *)

\* exit codes a child process may report are 0..MaxExitCode
MaxExitCode == 2

\* number of hotkey callbacks the OS delivers in one run
MaxCallbacks == 3

----------------------------------------------------------------------------
(* Values. *)

None == <<>>
Some(x) == <<x>>
unwrap_or_else(o, default) == IF o = None THEN default ELSE o[1]

Ok(v) == [tag |-> "Ok", val |-> v]
Err(e) == [tag |-> "Err", err |-> e]
Pending == [tag |-> "Pending"]
Unit == "()"

HOLD_TO_RECORD_SHORTCUT == "CommandOrControl+Shift+Space"

Platforms == {"macos", "other"}

SettingsPanel == {"Camera", "Accessibility"}

ShortcutState == {"Pressed", "Released"}

\* std::process::ExitStatus: code() is None when a signal ended the process
ExitStatuses == {[code |-> c] : c \in {None} \cup {Some(n) : n \in 0..MaxExitCode}}

success(status) == status.code = Some(0)

\* Display of the std::io::Error a failed spawn returns
IoErrors == {<<"No such file or directory (os error 2)">>,
             <<"Permission denied (os error 13)">>}

\* Display of an arboard::Error
ClipboardErrors == {<<"The clipboard contents were not available in the requested format or the clipboard is empty.">>,
                    <<"Unknown error while interacting with the clipboard">>}

\* Display of a tauri::Error
TauriErrors == {<<"failed to send message to the event loop">>}

\* Texts the UI passes to paste_text: empty, plain, with a control character
Texts == {<<>>, <<"a">>, <<"a", "\t", "b">>}

PreviousContent == <<"p", "r", "e", "v">>

ClipboardContents == Texts \cup {PreviousContent}

----------------------------------------------------------------------------
(* String helpers of the standard library, as the code uses them. *)

InvalidByte == "<FF>"
ReplacementChar == "<U+FFFD>"

\* String::from_utf8_lossy: invalid bytes become U+FFFD
from_utf8_lossy(bytes) ==
    [i \in DOMAIN bytes |-> IF bytes[i] = InvalidByte THEN ReplacementChar ELSE bytes[i]]

Whitespace == {" ", "\t", "\n", "\r"}

RECURSIVE trim_start(_)
trim_start(s) ==
    IF s # <<>> /\ Head(s) \in Whitespace THEN trim_start(Tail(s)) ELSE s

RECURSIVE trim_end(_)
trim_end(s) ==
    IF s # <<>> /\ s[Len(s)] \in Whitespace
    THEN trim_end(SubSeq(s, 1, Len(s) - 1))
    ELSE s

\* str::trim
trim(s) == trim_end(trim_start(s))

lower_char(c) ==
    CASE c = "A" -> "a" [] c = "E" -> "e" [] c = "F" -> "f" [] c = "L" -> "l"
      [] c = "R" -> "r" [] c = "S" -> "s" [] c = "T" -> "t" [] c = "U" -> "u"
      [] OTHER -> c

\* str::to_lowercase
to_lowercase(s) == [i \in DOMAIN s |-> lower_char(s[i])]

\* i32::to_string of an exit code, "unknown" when there is none
status_text(status) ==
    IF status.code = None THEN "unknown" ELSE ToString(status.code[1])

----------------------------------------------------------------------------
(* What the operating system may answer. *)

\* Command::status(): the spawn fails, or the child exits
StatusOutcomes == {Err(e) : e \in IoErrors} \cup {Ok(s) : s \in ExitStatuses}

LeftPads == {<<>>, <<" ">>, <<"\n", "\t">>}
RightPads == {<<>>, <<"\n">>, <<" ", "\r", "\n">>}
TrueWords == {<<"t", "r", "u", "e">>, <<"T", "R", "U", "E">>, <<"T", "r", "u", "e">>}
OtherWords == {<<>>, <<"f", "a", "l", "s", "e">>, <<"t", "r", " ", "u", "e">>,
               <<"t", "r", "u", "e", "x">>, <<"t", "r", "u", "e", "<FF>">>}

\* what osascript may print for "get UI elements enabled"
Stdouts == {l \o w \o r : l \in LeftPads, w \in TrueWords \cup OtherWords, r \in RightPads}

BlankStderrs == {<<>>, <<"\n">>, <<" ", "\n">>}
MessageStderrs == {<<"e", "r", "r", "\n">>, <<" ", "n", "o", "<FF>">>}
Stderrs == BlankStderrs \cup MessageStderrs

\* Command::output() of the osascript query: the spawn fails, or the child
\* exits with what it wrote.  A successful query may also have warned on
\* stderr, a failed one may also have printed on stdout.
QueryOutcomes ==
    {Err(e) : e \in IoErrors} \cup
    {Ok([status |-> [code |-> Some(0)], stdout |-> o, stderr |-> e]) :
        o \in Stdouts, e \in {<<>>, <<"e", "r", "r", "\n">>}} \cup
    {Ok([status |-> s, stdout |-> o, stderr |-> e]) :
        s \in ExitStatuses \ {[code |-> Some(0)]},
        o \in {<<>>, <<"t", "r", "u", "e", "\n">>},
        e \in Stderrs}

\* `open` prints nothing on stdout
OpenOutcomes ==
    {Err(e) : e \in IoErrors} \cup
    {Ok([status |-> s, stdout |-> <<>>, stderr |-> e]) :
        s \in ExitStatuses, e \in Stderrs}

\* arboard::Clipboard::new()
ClipboardNewOutcomes == {Ok(Unit)} \cup {Err(e) : e \in ClipboardErrors}

\* Clipboard::set_text: on Ok the clipboard holds the text; what a failed
\* write leaves on the clipboard (`left`) is the library's business
SetTextOutcomes ==
    {Ok(Unit)} \cup
    {[tag |-> "Err", err |-> e, left |-> c] : e \in ClipboardErrors, c \in ClipboardContents}

\* WebviewWindow::set_ignore_cursor_events: on Ok the flag is the argument;
\* a failed call leaves the flag at `left`
SetIgnoreOutcomes ==
    {Ok(Unit)} \cup
    {[tag |-> "Err", err |-> e, left |-> b] : e \in TauriErrors, b \in BOOLEAN}

----------------------------------------------------------------------------
(* The handlers, as functions of their arguments and of what the operating *)
(* system answers.                                                         *)

\* Variant of paste_text that does not look at the keystroke's exit status.
paste_text_ignoring_exit_status(text, os, clip, new_r, set_r, key_r) ==
    IF new_r.tag = "Err" THEN
        [result |-> Err(<<"Clipboard init failed: ">> \o new_r.err),
         clipboard |-> clip,
         trace |-> <<[call |-> "Clipboard::new", ok |-> FALSE]>>]
    ELSE IF set_r.tag = "Err" THEN
        [result |-> Err(<<"Clipboard write failed: ">> \o set_r.err),
         clipboard |-> set_r.left,
         trace |-> <<[call |-> "Clipboard::new", ok |-> TRUE],
                     [call |-> "set_text", text |-> text, ok |-> FALSE]>>]
    ELSE
        LET written == <<[call |-> "Clipboard::new", ok |-> TRUE],
                         [call |-> "set_text", text |-> text, ok |-> TRUE]>>
        IN  IF os = "macos" THEN
                IF key_r.tag = "Err" THEN
                    [result |-> Err(<<"Unable to trigger paste keystroke: ">> \o key_r.err),
                     clipboard |-> text,
                     trace |-> Append(written, [call |-> "osascript", out |-> key_r])]
                ELSE
                    [result |-> Ok([pasted |-> TRUE]),
                     clipboard |-> text,
                     trace |-> Append(written, [call |-> "osascript", out |-> key_r])]
            ELSE
                [result |-> Ok([pasted |-> FALSE]), clipboard |-> text, trace |-> written]

\* Variant of paste_text that puts the previous content back when the
\* keystroke fails.
paste_text_restoring_clipboard(text, os, clip, new_r, set_r, key_r) ==
    IF new_r.tag = "Err" THEN
        [result |-> Err(<<"Clipboard init failed: ">> \o new_r.err),
         clipboard |-> clip,
         trace |-> <<[call |-> "Clipboard::new", ok |-> FALSE]>>]
    ELSE IF set_r.tag = "Err" THEN
        [result |-> Err(<<"Clipboard write failed: ">> \o set_r.err),
         clipboard |-> set_r.left,
         trace |-> <<[call |-> "Clipboard::new", ok |-> TRUE],
                     [call |-> "set_text", text |-> text, ok |-> FALSE]>>]
    ELSE
        LET written == <<[call |-> "Clipboard::new", ok |-> TRUE],
                         [call |-> "set_text", text |-> text, ok |-> TRUE]>>
        IN  IF os = "macos" THEN
                IF key_r.tag = "Err" THEN
                    [result |-> Err(<<"Unable to trigger paste keystroke: ">> \o key_r.err),
                     clipboard |-> clip,
                     trace |-> Append(written, [call |-> "osascript", out |-> key_r])]
                ELSE IF ~success(key_r.val) THEN
                    [result |-> Err(<<"Paste keystroke was blocked. Enable Accessibility access for Telepathy.">>),
                     clipboard |-> clip,
                     trace |-> Append(written, [call |-> "osascript", out |-> key_r])]
                ELSE
                    [result |-> Ok([pasted |-> TRUE]),
                     clipboard |-> text,
                     trace |-> Append(written, [call |-> "osascript", out |-> key_r])]
            ELSE
                [result |-> Ok([pasted |-> FALSE]), clipboard |-> text, trace |-> written]

\* paste_text.  new_r, set_r, key_r: the outcomes of Clipboard::new,
\* set_text and the osascript keystroke; an outcome is read only if the
\* call is made.
paste_text(text, os, clip, new_r, set_r, key_r) ==
    IF new_r.tag = "Err" THEN
        [result |-> Err(<<"Clipboard init failed: ">> \o new_r.err),
         clipboard |-> clip,
         trace |-> <<[call |-> "Clipboard::new", ok |-> FALSE]>>]
    ELSE IF set_r.tag = "Err" THEN
        [result |-> Err(<<"Clipboard write failed: ">> \o set_r.err),
         clipboard |-> set_r.left,
         trace |-> <<[call |-> "Clipboard::new", ok |-> TRUE],
                     [call |-> "set_text", text |-> text, ok |-> FALSE]>>]
    ELSE
        LET written == <<[call |-> "Clipboard::new", ok |-> TRUE],
                         [call |-> "set_text", text |-> text, ok |-> TRUE]>>
        IN  IF os = "macos" THEN
                LET keystroke == [call |-> "osascript", out |-> key_r]
                IN  IF key_r.tag = "Err" THEN
                        [result |-> Err(<<"Unable to trigger paste keystroke: ">> \o key_r.err),
                         clipboard |-> text,
                         trace |-> Append(written, keystroke)]
                    ELSE IF ~success(key_r.val) THEN
                        [result |-> Err(<<"Paste keystroke was blocked. Enable Accessibility access for Telepathy.">>),
                         clipboard |-> text,
                         trace |-> Append(written, keystroke)]
                    ELSE
                        [result |-> Ok([pasted |-> TRUE]),
                         clipboard |-> text,
                         trace |-> Append(written, keystroke)]
            ELSE
                [result |-> Ok([pasted |-> FALSE]),
                 clipboard |-> text,
                 trace |-> written]

\* Variant of check_accessibility_permission that reads stdout without
\* looking at the exit status.
check_accessibility_permission_ignoring_status(os, out) ==
    IF os = "macos" THEN
        IF out.tag = "Ok" THEN
            LET stdout == to_lowercase(trim(from_utf8_lossy(out.val.stdout)))
            IN  [granted |-> stdout = <<"t", "r", "u", "e">>, detail |-> None]
        ELSE
            [granted |-> FALSE, detail |-> Some(out.err)]
    ELSE
        [granted |-> TRUE, detail |-> None]

\* Variant of check_accessibility_permission that attaches stderr without
\* testing it for emptiness.
check_accessibility_permission_always_detail(os, out) ==
    IF os = "macos" THEN
        IF out.tag = "Ok" /\ success(out.val.status) THEN
            LET stdout == to_lowercase(trim(from_utf8_lossy(out.val.stdout)))
            IN  [granted |-> stdout = <<"t", "r", "u", "e">>, detail |-> None]
        ELSE IF out.tag = "Ok" THEN
            [granted |-> FALSE, detail |-> Some(trim(from_utf8_lossy(out.val.stderr)))]
        ELSE
            [granted |-> FALSE, detail |-> Some(out.err)]
    ELSE
        [granted |-> TRUE, detail |-> None]

\* check_accessibility_permission.  out: the outcome of the osascript query.
check_accessibility_permission(os, out) ==
    IF os = "macos" THEN
        IF out.tag = "Ok" /\ success(out.val.status) THEN
            LET stdout == to_lowercase(trim(from_utf8_lossy(out.val.stdout)))
            IN  [granted |-> stdout = <<"t", "r", "u", "e">>, detail |-> None]
        ELSE IF out.tag = "Ok" THEN
            LET stderr == trim(from_utf8_lossy(out.val.stderr))
            IN  [granted |-> FALSE,
                 detail |-> IF stderr = <<>> THEN None ELSE Some(stderr)]
        ELSE
            [granted |-> FALSE, detail |-> Some(out.err)]
    ELSE
        [granted |-> TRUE, detail |-> None]

\* open_system_settings: the URL list of a panel
urls(panel) ==
    IF panel = "Camera" THEN
        <<"x-apple.systempreferences:com.apple.preference.security?Privacy_Camera",
          "x-apple.systempreferences:com.apple.settings.PrivacySecurity.extension?Privacy_Camera",
          "x-apple.systempreferences:com.apple.preference.security">>
    ELSE
        <<"x-apple.systempreferences:com.apple.preference.security?Privacy_Accessibility",
          "x-apple.systempreferences:com.apple.settings.PrivacySecurity.extension?Privacy_Accessibility",
          "x-apple.systempreferences:com.apple.preference.security">>

\* the diagnostic open_system_settings records for a rejected URL
open_detail(url, out) ==
    LET stderr == trim(from_utf8_lossy(out.val.stderr))
        status == status_text(out.val.status)
    IN  IF stderr = <<>>
        THEN <<"open exited with status ", status, " for ", url>>
        ELSE <<"open exited with status ", status, " for ", url, ": ">> \o stderr

\* Variant of open_attempt that keeps the first diagnostic instead of the
\* last one.
open_attempt_keeping_first_error(url, is_last, last, out) ==
    IF out.tag = "Err" THEN
        [done |-> TRUE,
         result |-> Err(<<"Unable to execute 'open' for ", url, ": ">> \o out.err),
         last_error |-> last]
    ELSE IF success(out.val.status) THEN
        [done |-> TRUE, result |-> Ok(Unit), last_error |-> last]
    ELSE
        LET kept == IF last = None THEN Some(open_detail(url, out)) ELSE last
        IN  IF is_last THEN
                [done |-> TRUE,
                 result |-> Err(unwrap_or_else(kept, <<"Unable to open System Settings.">>)),
                 last_error |-> kept]
            ELSE
                [done |-> FALSE, result |-> Pending, last_error |-> kept]

\* Variant of open_attempt that, when `open` cannot be started, reports the
\* diagnostic of an earlier rejected URL if there is one.
open_attempt_preferring_diagnostic(url, is_last, last, out) ==
    IF out.tag = "Err" THEN
        [done |-> TRUE,
         result |-> Err(unwrap_or_else(last, <<"Unable to execute 'open' for ", url, ": ">> \o out.err)),
         last_error |-> last]
    ELSE IF success(out.val.status) THEN
        [done |-> TRUE, result |-> Ok(Unit), last_error |-> last]
    ELSE
        LET detail == open_detail(url, out)
        IN  IF is_last THEN
                [done |-> TRUE,
                 result |-> Err(unwrap_or_else(Some(detail), <<"Unable to open System Settings.">>)),
                 last_error |-> Some(detail)]
            ELSE
                [done |-> FALSE, result |-> Pending, last_error |-> Some(detail)]

\* open_system_settings: one iteration of `for url in urls`, and, after the
\* last one, the return that follows the loop.  out: the outcome of `open`.
open_attempt(url, is_last, last, out) ==
    IF out.tag = "Err" THEN
        [done |-> TRUE,
         result |-> Err(<<"Unable to execute 'open' for ", url, ": ">> \o out.err),
         last_error |-> last]
    ELSE IF success(out.val.status) THEN
        [done |-> TRUE, result |-> Ok(Unit), last_error |-> last]
    ELSE
        LET detail == open_detail(url, out)
        IN  IF is_last THEN
                [done |-> TRUE,
                 result |-> Err(unwrap_or_else(Some(detail), <<"Unable to open System Settings.">>)),
                 last_error |-> Some(detail)]
            ELSE
                [done |-> FALSE, result |-> Pending, last_error |-> Some(detail)]

\* Variant of set_overlay_passthrough that flips the flag instead of
\* setting it to the argument.
set_overlay_passthrough_toggling(wins, flag, ignore, r) ==
    IF "main" \notin wins THEN
        [result |-> Err(<<"Main window not found.">>), flag |-> flag, trace |-> <<>>]
    ELSE IF r.tag = "Ok" THEN
        [result |-> Ok(Unit),
         flag |-> ~flag,
         trace |-> <<[call |-> "set_ignore_cursor_events", arg |-> ignore, ok |-> TRUE]>>]
    ELSE
        [result |-> Err(<<"Unable to update overlay passthrough mode: ">> \o r.err),
         flag |-> r.left,
         trace |-> <<[call |-> "set_ignore_cursor_events", arg |-> ignore, ok |-> FALSE]>>]

\* set_overlay_passthrough.  wins: the windows that exist; flag: the
\* window's current click-through flag; ignore: the argument; r: the outcome
\* of set_ignore_cursor_events.
set_overlay_passthrough(wins, flag, ignore, r) ==
    IF "main" \notin wins THEN
        [result |-> Err(<<"Main window not found.">>), flag |-> flag, trace |-> <<>>]
    ELSE IF r.tag = "Ok" THEN
        [result |-> Ok(Unit),
         flag |-> ignore,
         trace |-> <<[call |-> "set_ignore_cursor_events", arg |-> ignore, ok |-> TRUE]>>]
    ELSE
        [result |-> Err(<<"Unable to update overlay passthrough mode: ">> \o r.err),
         flag |-> r.left,
         trace |-> <<[call |-> "set_ignore_cursor_events", arg |-> ignore, ok |-> FALSE]>>]

\* Variant of the single-instance callback that stops at the first window
\* call that fails.
single_instance_callback_stopping_on_failure(wins, r1, r2, r3) ==
    IF "main" \in wins THEN
        [windows |-> wins,
         trace |-> IF ~r1 THEN <<[call |-> "show", ok |-> r1]>>
                   ELSE IF ~r2 THEN <<[call |-> "show", ok |-> r1],
                                      [call |-> "unminimize", ok |-> r2]>>
                   ELSE <<[call |-> "show", ok |-> r1],
                          [call |-> "unminimize", ok |-> r2],
                          [call |-> "set_focus", ok |-> r3]>>]
    ELSE
        [windows |-> wins, trace |-> <<>>]

\* The single-instance callback.  r1, r2, r3: whether show, unminimize and
\* set_focus succeed; the code drops all three results.
single_instance_callback(wins, r1, r2, r3) ==
    IF "main" \in wins THEN
        [windows |-> wins,
         trace |-> <<[call |-> "show", ok |-> r1],
                     [call |-> "unminimize", ok |-> r2],
                     [call |-> "set_focus", ok |-> r3]>>]
    ELSE
        [windows |-> wins, trace |-> <<>>]

\* Variant of the hotkey handler that drops a callback repeating the state
\* emitted last.
hotkey_handler_deduplicating(log, state, emit_ok) ==
    LET text == IF state = "Pressed" THEN "pressed" ELSE "released"
    IN  IF log # <<>> /\ log[Len(log)].payload.state = text
        THEN log
        ELSE Append(log, [event |-> "telepathy://hotkey",
                          payload |-> [state |-> text, shortcut |-> HOLD_TO_RECORD_SHORTCUT],
                          ok |-> emit_ok])

\* The global-shortcut handler.  log: the emissions made so far; emit_ok:
\* whether app.emit succeeds, which the code drops.
hotkey_handler(log, state, emit_ok) ==
    LET text == IF state = "Pressed" THEN "pressed" ELSE "released"
    IN  Append(log, [event |-> "telepathy://hotkey",
                     payload |-> [state |-> text, shortcut |-> HOLD_TO_RECORD_SHORTCUT],
                     ok |-> emit_ok])

----------------------------------------------------------------------------
(* The state machine. *)

Init ==
    /\ platform \in Platforms
    /\ windows \in {{}, {"main"}}
    /\ ignore_cursor_events = FALSE
    /\ clipboard = PreviousContent
    /\ delivered = <<>>
    /\ emitted = <<>>
    /\ pc = "idle"
    /\ cmd = "none"
    /\ arg = None
    /\ result = Pending
    /\ trace = <<>>
    /\ idx = 0
    /\ last_error = None

PasteText(text) ==
    /\ pc = "idle"
    /\ \E new_r \in ClipboardNewOutcomes, set_r \in SetTextOutcomes, key_r \in StatusOutcomes :
          LET r == paste_text(text, platform, clipboard, new_r, set_r, key_r)
          IN  /\ result' = r.result
              /\ clipboard' = r.clipboard
              /\ trace' = r.trace
    /\ cmd' = "paste_text"
    /\ arg' = Some(text)
    /\ idx' = 0
    /\ last_error' = None
    /\ UNCHANGED <<platform, windows, ignore_cursor_events, delivered, emitted, pc>>

CheckAccessibilityPermission ==
    /\ pc = "idle"
    /\ \E out \in QueryOutcomes :
          /\ result' = Ok(check_accessibility_permission(platform, out))
          /\ trace' = IF platform = "macos"
                      THEN <<[call |-> "osascript", out |-> out]>>
                      ELSE <<>>
    /\ cmd' = "check_accessibility_permission"
    /\ arg' = None
    /\ idx' = 0
    /\ last_error' = None
    /\ UNCHANGED <<platform, windows, ignore_cursor_events, clipboard, delivered, emitted, pc>>

\* open_system_settings is entered: off macOS it returns at once, on macOS
\* the loop starts with last_error = None
OpenSystemSettings(panel) ==
    /\ pc = "idle"
    /\ cmd' = "open_system_settings"
    /\ arg' = Some(panel)
    /\ trace' = <<>>
    /\ last_error' = None
    /\ IF platform = "macos"
       THEN /\ pc' = "open_loop"
            /\ idx' = 1
            /\ result' = Pending
       ELSE /\ pc' = "idle"
            /\ idx' = 0
            /\ result' = Err(<<"System Settings deep link is only implemented on macOS.">>)
    /\ UNCHANGED <<platform, windows, ignore_cursor_events, clipboard, delivered, emitted>>

\* one `open` invocation of the loop
OpenAttempt ==
    /\ pc = "open_loop"
    /\ LET list == urls(arg[1])
           url == list[idx]
       IN  \E out \in OpenOutcomes :
              LET r == open_attempt(url, idx = Len(list), last_error, out)
              IN  /\ trace' = Append(trace, [call |-> "open", url |-> url, out |-> out])
                  /\ last_error' = r.last_error
                  /\ result' = r.result
                  /\ pc' = IF r.done THEN "idle" ELSE "open_loop"
                  /\ idx' = IF r.done THEN idx ELSE idx + 1
    /\ UNCHANGED <<platform, windows, ignore_cursor_events, clipboard, delivered,
                   emitted, cmd, arg>>

SetOverlayPassthrough(ignore) ==
    /\ pc = "idle"
    /\ \E r \in SetIgnoreOutcomes :
          LET s == set_overlay_passthrough(windows, ignore_cursor_events, ignore, r)
          IN  /\ result' = s.result
              /\ ignore_cursor_events' = s.flag
              /\ trace' = s.trace
    /\ cmd' = "set_overlay_passthrough"
    /\ arg' = Some(ignore)
    /\ idx' = 0
    /\ last_error' = None
    /\ UNCHANGED <<platform, windows, clipboard, delivered, emitted, pc>>

\* a second launch is suppressed and the running instance's callback runs
SecondInstance ==
    /\ pc = "idle"
    /\ \E r1 \in BOOLEAN, r2 \in BOOLEAN, r3 \in BOOLEAN :
          LET s == single_instance_callback(windows, r1, r2, r3)
          IN  /\ windows' = s.windows
              /\ trace' = s.trace
    /\ cmd' = "single_instance"
    /\ arg' = None
    /\ result' = Pending
    /\ idx' = 0
    /\ last_error' = None
    /\ UNCHANGED <<platform, ignore_cursor_events, clipboard, delivered, emitted, pc>>

\* the OS reports the shortcut's state and the handler runs
HotkeyCallback ==
    /\ pc = "idle"
    /\ Len(delivered) < MaxCallbacks
    /\ \E state \in ShortcutState, emit_ok \in BOOLEAN :
          /\ delivered' = Append(delivered, state)
          /\ emitted' = hotkey_handler(emitted, state, emit_ok)
    /\ cmd' = "hotkey"
    /\ arg' = None
    /\ result' = Pending
    /\ trace' = <<>>
    /\ idx' = 0
    /\ last_error' = None
    /\ UNCHANGED <<platform, windows, ignore_cursor_events, clipboard, pc>>

NextPaste == \E text \in Texts : PasteText(text)

NextAccessibility == CheckAccessibilityPermission

NextSettings ==
    \/ \E panel \in SettingsPanel : OpenSystemSettings(panel)
    \/ OpenAttempt

NextEvents ==
    \/ \E ignore \in BOOLEAN : SetOverlayPassthrough(ignore)
    \/ SecondInstance
    \/ HotkeyCallback

\* paste_text alone
SpecPaste == Init /\ [][NextPaste]_vars

\* check_accessibility_permission alone
SpecAccessibility == Init /\ [][NextAccessibility]_vars

\* open_system_settings alone
SpecSettings == Init /\ [][NextSettings]_vars

\* the window command and the two callbacks run() registers
SpecEvents == Init /\ [][NextEvents]_vars

----------------------------------------------------------------------------
(* Properties.  Each is stated over the calls a handler made (`trace`), its *)
(* argument and its result, for the handler named by `cmd`.                *)

\* the i-th `open` of the running or finished open_system_settings call was
\* started and exited non-zero (or was killed), resp. exited with 0
OpenRejected(i) ==
    trace[i].out.tag = "Ok" /\ trace[i].out.val.status.code # Some(0)

OpenAccepted(i) ==
    trace[i].out.tag = "Ok" /\ trace[i].out.val.status.code = Some(0)

\* C1: on macOS open_system_settings invokes `open` once per URL, in the
\* order of the panel's list.  If the first N URLs (N in 0..2) are rejected
\* and the next one is accepted, the command has returned Ok after exactly
\* N+1 invocations.  If all three are rejected it has returned Err after
\* exactly three invocations, and the text starts with the exit status of
\* the third invocation and the third URL of the list.
C1_FixedOrderUntilFirstAccepted ==
    (cmd = "open_system_settings" /\ platform = "macos") =>
        LET list == urls(arg[1])
        IN  /\ Len(trace) <= Len(list)
            /\ \A i \in 1..Len(trace) :
                  trace[i].call = "open" /\ trace[i].url = list[i]
            /\ \A N \in 0..2 :
                  ( /\ Len(trace) > N
                    /\ \A i \in 1..N : OpenRejected(i)
                    /\ OpenAccepted(N + 1) )
                  => (pc = "idle" /\ result = Ok(Unit) /\ Len(trace) = N + 1)
            /\ (Len(trace) = 3 /\ \A i \in 1..3 : OpenRejected(i))
                  => /\ pc = "idle"
                     /\ result.tag = "Err"
                     /\ Len(result.err) >= 4
                     /\ SubSeq(result.err, 1, 4) =
                           <<"open exited with status ",
                             status_text(trace[3].out.val.status),
                             " for ", list[3]>>

\* C1 witness: all three URLs were rejected, the first and the third with
\* different exit statuses, and the command has returned its error.
C1_Witness ==
    /\ cmd = "open_system_settings"
    /\ pc = "idle"
    /\ Len(trace) = 3
    /\ \A i \in 1..3 : OpenRejected(i)
    /\ trace[1].out.val.status # trace[3].out.val.status
    /\ result.tag = "Err"

\* C3: paste_text returns pasted=true only on macOS after Clipboard::new,
\* set_text and the keystroke process all succeeded (started, exit code 0).
\* Off macOS no keystroke is issued and a successful write gives
\* pasted=false.  A failure of clipboard init, clipboard write, keystroke
\* spawn or keystroke exit status gives Err, each with its own message.
C3_PastedOnlyAfterSuccessfulKeystroke ==
    cmd = "paste_text" =>
        LET n == Len(trace)
            init_failed == ~trace[1].ok
            write_failed == n >= 2 /\ ~trace[2].ok
            spawn_failed == n = 3 /\ trace[3].out.tag = "Err"
            exit_failed == n = 3 /\ trace[3].out.tag = "Ok"
                                 /\ trace[3].out.val.code # Some(0)
            message == [k \in {"init", "write", "spawn", "exit"} |->
                          CASE k = "init" -> "Clipboard init failed: "
                            [] k = "write" -> "Clipboard write failed: "
                            [] k = "spawn" -> "Unable to trigger paste keystroke: "
                            [] k = "exit" -> "Paste keystroke was blocked. Enable Accessibility access for Telepathy."]
        IN  /\ trace[1].call = "Clipboard::new"
            /\ (result.tag = "Ok" /\ result.val.pasted)
                  => /\ platform = "macos"
                     /\ n = 3
                     /\ trace[1].ok
                     /\ trace[2].call = "set_text" /\ trace[2].ok
                     /\ trace[3].call = "osascript"
                     /\ trace[3].out = Ok([code |-> Some(0)])
            /\ platform # "macos"
                  => /\ \A i \in 1..n : trace[i].call # "osascript"
                     /\ (n = 2 /\ trace[2].ok) => result = Ok([pasted |-> FALSE])
            /\ (init_failed \/ write_failed \/ spawn_failed \/ exit_failed)
                  => result.tag = "Err"
            /\ result.tag = "Ok"
                  => ~(init_failed \/ write_failed \/ spawn_failed \/ exit_failed)
            /\ init_failed => result.err[1] = message["init"]
            /\ write_failed => result.err[1] = message["write"]
            /\ spawn_failed => result.err[1] = message["spawn"]
            /\ exit_failed => result.err[1] = message["exit"]
            /\ \A j, k \in DOMAIN message : j # k => message[j] # message[k]

\* C3 witness: a paste on macOS whose keystroke exited with 0.
C3_Witness ==
    /\ cmd = "paste_text"
    /\ platform = "macos"
    /\ Len(trace) = 3
    /\ trace[3].out = Ok([code |-> Some(0)])
    /\ result = Ok([pasted |-> TRUE])

\* stdout that is "true" in some letter case, with whitespace around it
TrueStdouts == {l \o w \o r : l \in LeftPads, w \in TrueWords, r \in RightPads}

\* C4: on macOS check_accessibility_permission returns granted=true exactly
\* when the query was started, exited with 0 and printed "true" in any
\* letter case with any whitespace around it; a query that was not started
\* or exited non-zero gives granted=false whatever it printed.
C4_GrantedIffCleanTrue ==
    (cmd = "check_accessibility_permission" /\ platform = "macos") =>
        LET out == trace[1].out
        IN  result.val.granted <=>
               ( /\ out.tag = "Ok"
                 /\ out.val.status.code = Some(0)
                 /\ out.val.stdout \in TrueStdouts )

\* C4 witness: the query printed " TRUE" and a newline, exited with 0, and
\* the command reported granted=true.
C4_Witness ==
    /\ cmd = "check_accessibility_permission"
    /\ platform = "macos"
    /\ trace[1].out.tag = "Ok"
    /\ trace[1].out.val.status.code = Some(0)
    /\ trace[1].out.val.stdout = <<" ", "T", "R", "U", "E", "\n">>
    /\ result.val.granted

\* C5: check_accessibility_permission always returns a status, never an
\* error.  detail is present only when granted is false and either the
\* query could not be started or it failed with a stderr that is not blank;
\* granted=true has no detail; a query that exited with 0 without printing
\* "true" gives granted=false without detail; off macOS the answer is
\* granted=true without detail, and no query is run.
C5_DetailOnlyWithDiagnostic ==
    cmd = "check_accessibility_permission" =>
        /\ pc = "idle"
        /\ result.tag = "Ok"
        /\ LET st == result.val
           IN  /\ st.granted => st.detail = None
               /\ platform = "macos" =>
                     LET out == trace[1].out
                     IN  /\ st.detail # None =>
                               /\ ~st.granted
                               /\ \/ out.tag = "Err"
                                  \/ /\ out.tag = "Ok"
                                     /\ out.val.status.code # Some(0)
                                     /\ out.val.stderr \notin BlankStderrs
                         /\ ( /\ out.tag = "Ok"
                              /\ out.val.status.code = Some(0)
                              /\ out.val.stdout \notin TrueStdouts )
                            => st = [granted |-> FALSE, detail |-> None]
               /\ platform # "macos" =>
                     /\ st = [granted |-> TRUE, detail |-> None]
                     /\ trace = <<>>

\* C5 witness: a query that exited with 0, printed "false" and warned on
\* stderr; the command reported granted=false without detail.
C5_Witness ==
    /\ cmd = "check_accessibility_permission"
    /\ platform = "macos"
    /\ trace[1].out.tag = "Ok"
    /\ trace[1].out.val.status.code = Some(0)
    /\ trace[1].out.val.stdout = <<"f", "a", "l", "s", "e", "\n">>
    /\ trace[1].out.val.stderr # <<>>
    /\ result.val = [granted |-> FALSE, detail |-> None]

\* C6: a step of set_overlay_passthrough taken while "main" does not exist
\* returns the window-not-found error, makes no window-system call and
\* leaves the flag as it was; taken while "main" exists it makes one
\* set_ignore_cursor_events call with its argument, and if that call
\* succeeds the flag equals the argument whatever it was before.  No other
\* handler changes the flag.
C6_FlagIsLastArgument ==
    [][ /\ cmd' = "set_overlay_passthrough" =>
              IF "main" \notin windows
              THEN /\ result' = Err(<<"Main window not found.">>)
                   /\ trace' = <<>>
                   /\ ignore_cursor_events' = ignore_cursor_events
              ELSE /\ Len(trace') = 1
                   /\ trace'[1].call = "set_ignore_cursor_events"
                   /\ trace'[1].arg = arg'[1]
                   /\ trace'[1].ok =>
                         /\ result' = Ok(Unit)
                         /\ ignore_cursor_events' = arg'[1]
        /\ cmd' # "set_overlay_passthrough" =>
              ignore_cursor_events' = ignore_cursor_events
      ]_vars

\* C6 witness: the window exists, the call with `true` succeeded and the
\* flag, false at start, is now true.
C6_Witness ==
    /\ cmd = "set_overlay_passthrough"
    /\ "main" \in windows
    /\ arg = Some(TRUE)
    /\ result = Ok(Unit)
    /\ ignore_cursor_events = TRUE

\* C7: the emissions are the callbacks, one for one and in order: the i-th
\* emission goes to the hotkey event, carries "pressed" or "released" as
\* the i-th callback was Pressed or Released, and the fixed shortcut.
C7_OneEmissionPerCallback ==
    /\ Len(emitted) = Len(delivered)
    /\ \A i \in 1..Len(delivered) :
          /\ emitted[i].event = "telepathy://hotkey"
          /\ emitted[i].payload.shortcut = "CommandOrControl+Shift+Space"
          /\ delivered[i] = "Pressed" => emitted[i].payload.state = "pressed"
          /\ delivered[i] = "Released" => emitted[i].payload.state = "released"

\* C7 witness: Pressed, Pressed, Released were delivered, the first
\* emission failed, and three emissions were made.
C7_Witness ==
    /\ delivered = <<"Pressed", "Pressed", "Released">>
    /\ Len(emitted) = 3
    /\ ~emitted[1].ok
    /\ emitted[2].ok

\* C8: there is never a window other than "main"; after a suppressed launch
\* the callback has called show, unminimize and set_focus on "main" once
\* each, in that order, whichever of them failed, and has made no call when
\* "main" does not exist.
C8_ShowUnminimizeFocusOnce ==
    /\ windows \subseteq {"main"}
    /\ cmd = "single_instance" =>
          IF "main" \in windows
          THEN /\ Len(trace) = 3
               /\ trace[1].call = "show"
               /\ trace[2].call = "unminimize"
               /\ trace[3].call = "set_focus"
          ELSE trace = <<>>

\* C8 witness: a suppressed launch whose show and unminimize failed and
\* whose set_focus was still made.
C8_Witness ==
    /\ cmd = "single_instance"
    /\ "main" \in windows
    /\ Len(trace) = 3
    /\ ~trace[1].ok
    /\ ~trace[2].ok
    /\ trace[3].ok

\* C9: on macOS, if `open` cannot be started for the k-th URL, that attempt
\* is the last one, the command has returned, and the error is the
\* "Unable to execute 'open'" text with that URL and the spawn error, not
\* the diagnostic recorded for an earlier rejected URL.
C9_SpawnFailureReturnsAtOnce ==
    (cmd = "open_system_settings" /\ platform = "macos") =>
        \A k \in 1..Len(trace) :
            trace[k].out.tag = "Err" =>
                /\ k = Len(trace)
                /\ pc = "idle"
                /\ result = Err(<<"Unable to execute 'open' for ", urls(arg[1])[k], ": ">>
                                \o trace[k].out.err)
                /\ last_error # None => result.err # last_error[1]

\* C9 witness: two URLs were rejected and `open` could not be started for
\* the third.
C9_Witness ==
    /\ cmd = "open_system_settings"
    /\ pc = "idle"
    /\ Len(trace) = 3
    /\ OpenRejected(1)
    /\ OpenRejected(2)
    /\ trace[3].out.tag = "Err"
    /\ last_error # None
    /\ result.tag = "Err"

\* C10: paste_text runs the keystroke only after a successful set_text and
\* does not restore the clipboard: when the keystroke cannot be started or
\* exits non-zero the command returns Err and the clipboard holds the new
\* text.  An Err with no keystroke attempted comes only from a failed
\* clipboard init or a failed clipboard write.
C10_ClipboardKeptOnKeystrokeFailure ==
    cmd = "paste_text" =>
        LET n == Len(trace)
            attempted == \E i \in 1..n : trace[i].call = "osascript"
        IN  /\ \A i \in 1..n :
                  trace[i].call = "osascript" =>
                      /\ i = 3
                      /\ trace[2].call = "set_text"
                      /\ trace[2].text = arg[1]
                      /\ trace[2].ok
            /\ ( /\ attempted
                 /\ \/ trace[n].out.tag = "Err"
                    \/ trace[n].out.val.code # Some(0) )
               => (result.tag = "Err" /\ clipboard = arg[1])
            /\ (result.tag = "Err" /\ ~attempted)
               => \/ (n = 1 /\ ~trace[1].ok)
                  \/ (n = 2 /\ trace[1].ok /\ ~trace[2].ok)

\* C10 witness: the keystroke exited non-zero, the command returned Err and
\* the clipboard holds the new text, not what it held at start.
C10_Witness ==
    /\ cmd = "paste_text"
    /\ Len(trace) = 3
    /\ trace[3].out.tag = "Ok"
    /\ trace[3].out.val.code # Some(0)
    /\ result.tag = "Err"
    /\ clipboard = arg[1]
    /\ clipboard # PreviousContent

====
